---- MODULE Spec2Model ----
(***************************************************************************)
(* SCL-90 backend: the single-use access gate (redemption codes and temp   *)
(* tokens kept in Redis) and the scoring engine behind POST /api/submit.   *)
(* Two revisions of the server are modelled: src/index.js (5-level factor  *)
(* scheme, mean-score overall classifier, guarded knowledge lookup) and    *)
(* src/unnamed/part_000 (4-level scheme, multi-rule overall classifier,    *)
(* unguarded knowledge lookup).  The variable build says which one runs.   *)
(* Strings of the source that are not ASCII are written in pinyin with     *)
(* tone digits (zheng4chang2 = "normal", ...); factor names in English.    *)
(***************************************************************************)
EXTENDS Integers, Sequences, FiniteSets, TLC

VARIABLES
    build,       \* which revision is deployed: "index.js" or "part_000"
    kb,          \* the knowledge base table: set of <<factor name, level>> present
    redisReady,  \* redisClient is defined and redisClient.isReady
    store,       \* keys held by Redis: <<"code", c>> and <<"token", t>>
    reqs,        \* the HTTP requests, one record per request slot
    issued,      \* number of uuidv4() temp tokens drawn so far
    stored,      \* per code: how many times /api/generate-code stored it
    body,        \* scoring harness: req.body of the submission under test
    res,         \* scoring harness: the response to it
    prev,        \* scoring harness: the response to the submission before it
    raised       \* scoring harness: the item scored higher than before, 0 if none

vars == <<build, kb, redisReady, store, reqs, issued, stored, body, res, prev, raised>>
gateVars == <<redisReady, store, reqs, issued, stored>>
scoreVars == <<body, res, prev, raised>>

Builds == {"index.js", "part_000"}

(***************************************************************************)
(* Static tables                                                           *)
(***************************************************************************)
\* (variant: item 1 is listed under obsessive_compulsive as well)
SCL90_FACTORS_Overlap == <<
    [name |-> "somatization",              ids |-> <<1, 4, 12, 27, 40, 42, 48, 49, 52, 53, 56, 58>>],
    [name |-> "obsessive_compulsive",      ids |-> <<1, 3, 9, 10, 28, 38, 45, 46, 51, 55, 65>>],
    [name |-> "interpersonal_sensitivity", ids |-> <<6, 21, 34, 36, 37, 41, 61, 69, 73>>],
    [name |-> "depression",                ids |-> <<5, 14, 15, 20, 22, 26, 29, 30, 31, 32, 54, 71, 79>>],
    [name |-> "anxiety",                   ids |-> <<2, 17, 23, 33, 39, 57, 72, 78, 80, 86>>],
    [name |-> "hostility",                 ids |-> <<11, 24, 63, 67, 74, 81>>],
    [name |-> "phobic_anxiety",            ids |-> <<13, 25, 47, 50, 70, 75, 82>>],
    [name |-> "paranoid_ideation",         ids |-> <<8, 18, 43, 68, 76, 83>>],
    [name |-> "psychoticism",              ids |-> <<7, 16, 35, 62, 77, 84, 85, 87, 88, 90>>] >>

SCL90_FACTORS == <<
    [name |-> "somatization",              ids |-> <<1, 4, 12, 27, 40, 42, 48, 49, 52, 53, 56, 58>>],
    [name |-> "obsessive_compulsive",      ids |-> <<3, 9, 10, 28, 38, 45, 46, 51, 55, 65>>],
    [name |-> "interpersonal_sensitivity", ids |-> <<6, 21, 34, 36, 37, 41, 61, 69, 73>>],
    [name |-> "depression",                ids |-> <<5, 14, 15, 20, 22, 26, 29, 30, 31, 32, 54, 71, 79>>],
    [name |-> "anxiety",                   ids |-> <<2, 17, 23, 33, 39, 57, 72, 78, 80, 86>>],
    [name |-> "hostility",                 ids |-> <<11, 24, 63, 67, 74, 81>>],
    [name |-> "phobic_anxiety",            ids |-> <<13, 25, 47, 50, 70, 75, 82>>],
    [name |-> "paranoid_ideation",         ids |-> <<8, 18, 43, 68, 76, 83>>],
    [name |-> "psychoticism",              ids |-> <<7, 16, 35, 62, 77, 84, 85, 87, 88, 90>>] >>

FactorNames == {SCL90_FACTORS[f].name : f \in DOMAIN SCL90_FACTORS}

\* index.js: every factor has the five levels normal .. extreme.
KNOWLEDGE_BASE == FactorNames \X {"normal", "mild", "moderate", "severe", "extreme"}

\* part_000: the forEach over Object.keys(SCL90_FACTORS) fills four levels per factor.
KNOWLEDGE_BASE_V2 == FactorNames \X {"normal", "mild", "moderate", "severe"}

ShippedKb(b) == IF b = "index.js" THEN KNOWLEDGE_BASE ELSE KNOWLEDGE_BASE_V2

(***************************************************************************)
(* Numbers.  A factor average is the exact quotient num/den; comparing it  *)
(* with the breakpoint a/b is done by cross-multiplication.                *)
(***************************************************************************)
Avg(total, n) == [num |-> total, den |-> n]
Lt(x, a, b) == x.num * b < a * x.den        \* x < a/b
Ge(x, a, b) == ~Lt(x, a, b)                 \* x >= a/b

\* toFixed keeping one digit fewer of the item average (scale 100)
toFixed_OneDigit(num, den, scale) ==
    IF scale = 100 THEN 10 * ((2 * num * 10 + den) \div (2 * den))
    ELSE (2 * num * scale + den) \div (2 * den)

\* Number.prototype.toFixed(digits) of the quotient num/den, as the integer
\* count of 10^-digits units (den > 0; no quotient used here is a tie, so
\* rounding to nearest is the floor of the quotient plus one half).
toFixed(num, den, scale) == (2 * num * scale + den) \div (2 * den)

\* parseInt(a.score, 10) || 0 : parseInt stringifies its argument, so a raw
\* score is modelled by its string form.
parseIntOrZero(s) ==
    CASE s = "0" -> 0
      [] s = "1" -> 1
      [] s = "2" -> 2
      [] s = "3" -> 3
      [] s = "4" -> 4
      [] s = "7" -> 7
      [] s = "-1" -> -1
      [] s = "2.7" -> 2
      [] s = "3abc" -> 3
      [] OTHER -> 0          \* NaN (non-numeric, undefined, "") is falsy

(***************************************************************************)
(* Classifier, src/index.js (5-level scheme, mean-score overall)           *)
(***************************************************************************)
getFactorStatus(score) ==
    IF Lt(score, 3, 2) THEN [level |-> "normal", text |-> "zheng4chang2", color |-> "#28a745"]
    ELSE IF Lt(score, 5, 2) THEN [level |-> "mild", text |-> "qing1du4", color |-> "#ffc107"]
    ELSE IF Lt(score, 7, 2) THEN [level |-> "moderate", text |-> "zhong1du4", color |-> "#fd7e14"]
    ELSE IF Lt(score, 9, 2) THEN [level |-> "severe", text |-> "pian1zhong4", color |-> "#dc3545"]
    ELSE [level |-> "extreme", text |-> "yan2zhong4", color |-> "#a21222"]

getOverallStatus(averageScore) ==
    IF Lt(averageScore, 3, 2) THEN [text |-> "zheng4chang2", color |-> "#28a745"]
    ELSE IF Lt(averageScore, 5, 2) THEN [text |-> "qing1du4", color |-> "#ffc107"]
    ELSE IF Lt(averageScore, 7, 2) THEN [text |-> "zhong1du4", color |-> "#fd7e14"]
    ELSE IF Lt(averageScore, 9, 2) THEN [text |-> "pian1zhong4", color |-> "#dc3545"]
    ELSE [text |-> "yan2zhong4", color |-> "#a21222"]

(***************************************************************************)
(* Classifier, src/unnamed/part_000 (4-level scheme, multi-rule overall)   *)
(***************************************************************************)
\* (variant: the last breakpoint tested with <= instead of <)
getFactorStatusV2_Le(averageScore) ==
    IF Lt(averageScore, 2, 1) THEN [level |-> "normal", text |-> "zheng4chang2", color |-> "#28a745"]
    ELSE IF Lt(averageScore, 3, 1) THEN [level |-> "mild", text |-> "qing1du4", color |-> "#ffc107"]
    ELSE IF averageScore.num <= 4 * averageScore.den
    THEN [level |-> "moderate", text |-> "zhong1du4", color |-> "#fd7e14"]
    ELSE [level |-> "severe", text |-> "zhong4du4", color |-> "#dc3545"]

getFactorStatusV2(averageScore) ==
    IF Lt(averageScore, 2, 1) THEN [level |-> "normal", text |-> "zheng4chang2", color |-> "#28a745"]
    ELSE IF Lt(averageScore, 3, 1) THEN [level |-> "mild", text |-> "qing1du4", color |-> "#ffc107"]
    ELSE IF Lt(averageScore, 4, 1) THEN [level |-> "moderate", text |-> "zhong1du4", color |-> "#fd7e14"]
    ELSE [level |-> "severe", text |-> "zhong4du4", color |-> "#dc3545"]

\* (variant: rule "severe" tests positiveItemCount >= 80 instead of > 80)
getOverallStatusV2_Ge80(totalScore, positiveItemCount, factorDetails) ==
    LET F == DOMAIN factorDetails
        allFactorsNormal == \A f \in F : Lt(factorDetails[f].averageScore, 2, 1)
        hasSevereFactors == \E f \in F : Ge(factorDetails[f].averageScore, 4, 1)
        hasModerateFactors == \E f \in F : /\ Ge(factorDetails[f].averageScore, 3, 1)
                                           /\ Lt(factorDetails[f].averageScore, 4, 1)
        hasMildFactors == \E f \in F : /\ Ge(factorDetails[f].averageScore, 2, 1)
                                       /\ Lt(factorDetails[f].averageScore, 3, 1)
    IN  IF totalScore < 160 /\ positiveItemCount <= 43 /\ allFactorsNormal
        THEN [text |-> "zheng4chang2 zhuang4tai4", color |-> "#28a745"]
        ELSE IF (totalScore >= 300 \/ hasSevereFactors) /\ positiveItemCount >= 80
        THEN [text |-> "zhong4du4 zheng4zhuang4", color |-> "#dc3545"]
        ELSE IF /\ (totalScore >= 200 /\ totalScore <= 299) \/ hasModerateFactors
                /\ positiveItemCount >= 60 /\ positiveItemCount <= 80
        THEN [text |-> "zhong1du4 zheng4zhuang4", color |-> "#fd7e14"]
        ELSE IF /\ (totalScore >= 160 /\ totalScore <= 199) \/ hasMildFactors
                /\ positiveItemCount < 60
        THEN [text |-> "qing1du4 zheng4zhuang4", color |-> "#ffc107"]
        ELSE IF totalScore >= 160 \/ positiveItemCount > 43
        THEN [text |-> "qing1du4 zheng4zhuang4", color |-> "#ffc107"]
        ELSE [text |-> "zheng4chang2 zhuang4tai4", color |-> "#28a745"]

getOverallStatusV2(totalScore, positiveItemCount, factorDetails) ==
    LET F == DOMAIN factorDetails
        allFactorsNormal == \A f \in F : Lt(factorDetails[f].averageScore, 2, 1)
        hasSevereFactors == \E f \in F : Ge(factorDetails[f].averageScore, 4, 1)
        hasModerateFactors == \E f \in F : /\ Ge(factorDetails[f].averageScore, 3, 1)
                                           /\ Lt(factorDetails[f].averageScore, 4, 1)
        hasMildFactors == \E f \in F : /\ Ge(factorDetails[f].averageScore, 2, 1)
                                       /\ Lt(factorDetails[f].averageScore, 3, 1)
    IN  IF totalScore < 160 /\ positiveItemCount <= 43 /\ allFactorsNormal
        THEN [text |-> "zheng4chang2 zhuang4tai4", color |-> "#28a745"]
        ELSE IF (totalScore >= 300 \/ hasSevereFactors) /\ positiveItemCount > 80
        THEN [text |-> "zhong4du4 zheng4zhuang4", color |-> "#dc3545"]
        ELSE IF /\ (totalScore >= 200 /\ totalScore <= 299) \/ hasModerateFactors
                /\ positiveItemCount >= 60 /\ positiveItemCount <= 80
        THEN [text |-> "zhong1du4 zheng4zhuang4", color |-> "#fd7e14"]
        ELSE IF /\ (totalScore >= 160 /\ totalScore <= 199) \/ hasMildFactors
                /\ positiveItemCount < 60
        THEN [text |-> "qing1du4 zheng4zhuang4", color |-> "#ffc107"]
        ELSE IF totalScore >= 160 \/ positiveItemCount > 43
        THEN [text |-> "qing1du4 zheng4zhuang4", color |-> "#ffc107"]
        ELSE [text |-> "zheng4chang2 zhuang4tai4", color |-> "#28a745"]

(***************************************************************************)
(* Request bodies.  req.body.answers is modelled by its kind ("undefined", *)
(* "object" for a truthy non-array, "array") and its entries; an entry is  *)
(* {id, score} with the score in string form, or JSON null.                *)
(***************************************************************************)
NullEntry == [id |-> -1, score |-> "null"]

Answers(kind, items) == [kind |-> kind, items |-> items]

\* (variant: the length test is answers.length < 90)
malformed_TooShortOnly(answers) ==
    \/ answers.kind = "undefined"
    \/ answers.kind # "array"
    \/ Len(answers.items) < 90

\* !answers || !Array.isArray(answers) || answers.length !== 90
malformed(answers) ==
    \/ answers.kind = "undefined"
    \/ answers.kind # "array"
    \/ Len(answers.items) # 90

\* The ids a request body of the model can carry.
MaxId == 91
KeyIds == 1 .. MaxId

\* new Map(answers.map(a => [String(a.id), parseInt(a.score, 10) || 0])) over the
\* entries lo..hi: a later entry with the same id overwrites the earlier one
\* (f @@ g keeps f where both are defined, so the later half goes left).
RECURSIVE mapRange(_, _, _)
mapRange(items, lo, hi) ==
    IF lo > hi THEN [k \in {} |-> 0]
    ELSE IF lo = hi THEN (items[lo].id :> parseIntOrZero(items[lo].score))
    ELSE LET mid == (lo + hi) \div 2
         IN  mapRange(items, mid + 1, hi) @@ mapRange(items, lo, mid)

\* The handler reads the Map only through values() (summed, filtered by >= 2)
\* and through get(id) || 0, so a key the Map lacks and a key mapped to 0 are
\* the same to it: answerMap is the function over KeyIds that is 0 there.
answerMapOf(items) == mapRange(items, 1, Len(items)) @@ [k \in KeyIds |-> 0]

\* Array.from(answerMap.values()).reduce((sum, score) => sum + score, 0),
\* summed over the keys lo..hi
RECURSIVE sumRange(_, _, _)
sumRange(m, lo, hi) ==
    IF lo > hi THEN 0
    ELSE IF lo = hi THEN m[lo]
    ELSE LET mid == (lo + hi) \div 2
         IN  sumRange(m, lo, mid) + sumRange(m, mid + 1, hi)

\* (variant: the reduce misses the first value)
sumValues_SkipFirst(m) == sumRange(m, 2, MaxId)

sumValues(m) == sumRange(m, 1, MaxId)

\* Array.from(answerMap.values()).filter(score => score >= 2).length
countPositive(m) == Cardinality({k \in KeyIds : m[k] >= 2})

\* ids.reduce((sum, id) => sum + (answerMap.get(String(id)) || 0), 0), over ids[lo..hi]
RECURSIVE sumIds(_, _, _, _)
sumIds(m, ids, lo, hi) ==
    IF lo > hi THEN 0
    ELSE IF lo = hi THEN m[ids[lo]]
    ELSE LET mid == (lo + hi) \div 2
         IN  sumIds(m, ids, lo, mid) + sumIds(m, ids, mid + 1, hi)

factorTotalScore(m, ids) == sumIds(m, ids, 1, Len(ids))

ErrorBody(msg) == [error |-> msg]
BadFormat == [status |-> 400, json |-> ErrorBody("ti2jiao1 de shu4ju4 ge2shi4 bu4 zheng4que4")]
InternalError == [status |-> 500, json |-> ErrorBody("fen1xi1 nei4bu4 cuo4wu4")]

Placeholder == [symptoms |-> "jie3du2 xin4xi1 que1shi1", advice |-> "qing3 lian2xi4 guan3li3yuan2"]
KbText == [symptoms |-> "knowledge.symptoms", advice |-> "knowledge.advice"]

(***************************************************************************)
(* Scoring handler of POST /api/submit, src/index.js.  answers is          *)
(* req.body.answers, table the knowledge base.                             *)
(***************************************************************************)
factorDetailsOf(m) ==
    [f \in DOMAIN SCL90_FACTORS |->
        LET ids == SCL90_FACTORS[f].ids
            factorTotal == factorTotalScore(m, ids)
            factorAverageScore == Avg(factorTotal, Len(ids))
        IN  [name |-> SCL90_FACTORS[f].name,
             totalScore |-> factorTotal,
             averageScore |-> factorAverageScore,
             status |-> getFactorStatus(factorAverageScore)]]

\* the guarded lookup: a missing (factor, level) entry yields the placeholder
detailedExplanationsOf(factorDetails, table) ==
    [f \in DOMAIN factorDetails |->
        LET factor == factorDetails[f]
            knowledge == IF <<factor.name, factor.status.level>> \in table
                         THEN KbText ELSE Placeholder
        IN  [name |-> factor.name, status |-> factor.status,
             symptoms |-> knowledge.symptoms, advice |-> knowledge.advice]]

\* stats, overallAssessment and detailedExplanations, then res.json(...)
reportIndexJs(totalScore, factorDetails, table) ==
    LET itemAverageScore == toFixed(totalScore, 90, 100)
        positiveFactorCount ==
            Cardinality({f \in DOMAIN factorDetails : factorDetails[f].status.level # "normal"})
        stats == [totalScore |-> totalScore,
                  itemAverageScore |-> Avg(itemAverageScore, 100),
                  positiveFactorCount |-> positiveFactorCount,
                  positiveFactorPercentage |-> toFixed(positiveFactorCount * 100, 9, 1)]
    IN  [status |-> 200,
         json |-> [stats |-> stats,
                   overallAssessment |-> getOverallStatus(stats.itemAverageScore),
                   factorDetails |-> factorDetails,
                   detailedExplanations |-> detailedExplanationsOf(factorDetails, table)]]

scoreIndexJs(answerMap, table) ==
    reportIndexJs(sumValues(answerMap), factorDetailsOf(answerMap), table)

submitIndexJs(answers, table) ==
    IF malformed(answers) THEN BadFormat
    ELSE IF \E i \in DOMAIN answers.items : answers.items[i] = NullEntry
    THEN InternalError                       \* a.id of null throws, caught
    ELSE scoreIndexJs(answerMapOf(answers.items), table)

(***************************************************************************)
(* Scoring handler of POST /api/submit, src/unnamed/part_000.              *)
(***************************************************************************)
factorDetailsOfV2(m) ==
    [f \in DOMAIN SCL90_FACTORS |->
        LET ids == SCL90_FACTORS[f].ids
            factorTotal == factorTotalScore(m, ids)
            factorAverageScore == Avg(factorTotal, Len(ids))
        IN  [name |-> SCL90_FACTORS[f].name,
             totalScore |-> factorTotal,
             averageScore |-> factorAverageScore,
             status |-> getFactorStatusV2(factorAverageScore)]]

\* the unguarded lookup: knowledge.symptoms of a missing entry throws
lookupThrowsV2(factorDetails, table) ==
    \E f \in DOMAIN factorDetails :
        <<factorDetails[f].name, factorDetails[f].status.level>> \notin table

detailedExplanationsOfV2(factorDetails) ==
    [f \in DOMAIN factorDetails |->
        [name |-> factorDetails[f].name, status |-> factorDetails[f].status,
         symptoms |-> KbText.symptoms, advice |-> KbText.advice]]

\* stats, overallAssessment and detailedExplanations, then res.json(...)
reportPart000(totalScore, positiveItemCount, factorDetails, table) ==
    LET itemAverageScore == toFixed(totalScore, 90, 100)
        stats == [totalScore |-> totalScore,
                  itemAverageScore |-> Avg(itemAverageScore, 100),
                  positiveFactorCount |-> positiveItemCount,
                  positiveFactorPercentage |-> toFixed(positiveItemCount * 100, 90, 1)]
    IN  IF lookupThrowsV2(factorDetails, table) THEN InternalError
        ELSE [status |-> 200,
              json |-> [stats |-> stats,
                        overallAssessment |->
                            getOverallStatusV2(totalScore, positiveItemCount, factorDetails),
                        factorDetails |-> factorDetails,
                        detailedExplanations |-> detailedExplanationsOfV2(factorDetails)]]

scorePart000(answerMap, table) ==
    reportPart000(sumValues(answerMap),
                  countPositive(answerMap),
                  factorDetailsOfV2(answerMap), table)

submitPart000(answers, table) ==
    IF malformed(answers) THEN BadFormat
    ELSE IF \E i \in DOMAIN answers.items : answers.items[i] = NullEntry
    THEN InternalError                       \* a.id of null throws, caught
    ELSE scorePart000(answerMapOf(answers.items), table)

\* app.post('/api/submit', authMiddleware, handler): the handler of the deployed revision
submitHandler(b, answers, table) ==
    IF b = "index.js" THEN submitIndexJs(answers, table) ELSE submitPart000(answers, table)

(***************************************************************************)
(* Scoring harness: the handler applied to a family of request bodies.     *)
(***************************************************************************)
NumItems == 90

NoRes == [status |-> 0, json |-> ErrorBody("none")]

Scores == 0 .. 4
ScoreStr(n) == <<"0", "1", "2", "3", "4">>[n + 1]

IdsOf(f) == {SCL90_FACTORS[f].ids[i] : i \in DOMAIN SCL90_FACTORS[f].ids}
FactorIds == UNION {IdsOf(f) : f \in DOMAIN SCL90_FACTORS}

\* the sets of items that score hi in a two-valued submission
HiSets ==
    {1 .. (10 * j) : j \in 0 .. 9}
    \cup {IdsOf(f) : f \in DOMAIN SCL90_FACTORS}
    \cup {(1 .. NumItems) \ IdsOf(f) : f \in DOMAIN SCL90_FACTORS}
    \cup {FactorIds, (1 .. NumItems) \ FactorIds}

Entry(id, score) == [id |-> id, score |-> score]

\* ids 1..90 once each; the items of S score hi, the others lo
Pattern(lo, hi, S) ==
    [i \in 1 .. NumItems |-> Entry(i, ScoreStr(IF i \in S THEN hi ELSE lo))]

Uniform(s) == Pattern(s, s, {})

PatternBodies ==
    {[answers |-> Answers("array", Pattern(p[1], p[2], S))] :
        p \in {q \in Scores \X Scores : q[1] <= q[2]}, S \in HiSets}

UniformBodies == {[answers |-> Answers("array", Uniform(s))] : s \in Scores}

\* bodies of other shapes: missing answers, a non-array, wrong lengths, a
\* repeated id, an id outside 1..90, a null entry, raw scores that are coerced
OddBodies ==
    {[answers |-> Answers("undefined", <<>>)],
     [answers |-> Answers("object", Uniform(1))],
     [answers |-> Answers("array", <<>>)],
     [answers |-> Answers("array", SubSeq(Uniform(2), 1, NumItems - 1))],
     [answers |-> Answers("array", Append(Uniform(2), Entry(MaxId, "2")))],
     [answers |-> Answers("array", [Uniform(3) EXCEPT ![NumItems] = Entry(1, "4")])],
     [answers |-> Answers("array", [Uniform(3) EXCEPT ![NumItems] = Entry(MaxId, "4")])],
     [answers |-> Answers("array", [Uniform(1) EXCEPT ![5] = NullEntry])]}
    \cup {[answers |-> Answers("array", [Uniform(1) EXCEPT ![7] = Entry(7, raw)])] :
            raw \in {"abc", "undefined", "2.7", "3abc", "7", "-1"}}

\* ids 1..90 once each; the first k items score hi, item k + 1 scores mid and
\* the others lo (raw scores, which the handler does not range-check)
Stair(lo, hi, k, mid) ==
    [i \in 1 .. NumItems |->
        Entry(i, IF i <= k THEN hi ELSE IF i = k + 1 THEN mid ELSE lo)]

\* submissions whose totals run through every integer of -90 .. 360 and of
\* 356 .. 627, so that every breakpoint of the item average is crossed
StairBodies ==
    {[answers |-> Answers("array", Stair(p[1], p[2], k, mid))] :
        p \in {<<"0", "4">>, <<"4", "7">>},
        k \in 0 .. (NumItems - 1),
        mid \in {"0", "1", "2", "3", "4"}}
    \cup {[answers |-> Answers("array", Stair("-1", "0", k, "-1"))] :
            k \in 0 .. (NumItems - 1)}

\* ids 1..90 once each, in order, every raw score one of "0".."4"
ValidSubmission(b) ==
    /\ b.answers.kind = "array"
    /\ Len(b.answers.items) = NumItems
    /\ \A i \in 1 .. NumItems :
        /\ b.answers.items[i].id = i
        /\ b.answers.items[i].score \in {ScoreStr(n) : n \in Scores}


(***************************************************************************)
(* The access gate and the HTTP requests.  Every await of a Redis command  *)
(* is one step: Redis executes the command and the handler runs on to its  *)
(* next await or to its response.  A command issued while the client is    *)
(* not ready rejects, which the handlers' catch turns into a 500.          *)
(***************************************************************************)
MaxReq == 4
MaxCodes == 1

Req == 1 .. MaxReq
Codes == 1 .. MaxCodes
NoToken == 0              \* no x-auth-token header (or an empty one): falsy
BogusToken == 0 - 1       \* a token the server never issued

CodeKey(c) == <<"code", c>>
TokenKey(t) == <<"token", t>>

GateBodies ==
    {[answers |-> Answers("array", Uniform(2))],
     [answers |-> Answers("array", SubSeq(Uniform(2), 1, NumItems - 1))],
     [answers |-> Answers("undefined", <<>>)],
     [answers |-> Answers("array", [Uniform(1) EXCEPT ![5] = NullEntry])]}

NoBody == [answers |-> Answers("undefined", <<>>)]

IdleReq == [kind |-> "idle", pc |-> "idle", key |-> 0, readyAtCheck |-> FALSE,
            got |-> "none", passed |-> FALSE, handled |-> FALSE,
            body |-> NoBody, out |-> NoRes, tempToken |-> NoToken]

\* the reply of a GET, as the request record keeps it
Hit(found) == IF found THEN "hit" ELSE "miss"

Responded(q) == q.out.status # 0

Reply(q, status) == [q EXCEPT !.pc = "done", !.out = [status |-> status, json |-> ErrorBody("error")]]

\* requests arrive one after another: slot r opens once the slots before it have
Arrives(r) ==
    /\ reqs[r].kind = "idle"
    /\ \A q \in Req : q < r => reqs[q].kind # "idle"

\* if (!redisClient || !redisClient.isReady) return res.status(503)
storeUnavailable(ready) == ~ready

\* ---- GET /api/generate-code ----
GenerateStart(r, newCode) ==
    /\ Arrives(r)
    /\ reqs' = [reqs EXCEPT ![r] =
            IF storeUnavailable(redisReady)
            THEN Reply([@ EXCEPT !.kind = "generate"], 503)
            ELSE [@ EXCEPT !.kind = "generate", !.pc = "gen_set", !.key = newCode,
                           !.readyAtCheck = TRUE]]
    /\ UNCHANGED <<build, kb, redisReady, store, issued, stored>>
    /\ UNCHANGED scoreVars

\* await redisClient.set(`code:${newCode}`, 'active'); res.send(...)
GenerateSet(r) ==
    /\ reqs[r].pc = "gen_set"
    /\ IF redisReady
       THEN /\ store' = store \cup {CodeKey(reqs[r].key)}
            /\ stored' = [stored EXCEPT ![reqs[r].key] = @ + 1]
            /\ reqs' = [reqs EXCEPT ![r] = Reply(@, 200)]
       ELSE /\ reqs' = [reqs EXCEPT ![r] = Reply(@, 500)]
            /\ UNCHANGED <<store, stored>>
    /\ UNCHANGED <<build, kb, redisReady, issued>>
    /\ UNCHANGED scoreVars

\* ---- POST /api/validate-code ----
ValidateStart(r, code) ==
    /\ Arrives(r)
    /\ reqs' = [reqs EXCEPT ![r] =
            IF storeUnavailable(redisReady)
            THEN Reply([@ EXCEPT !.kind = "validate", !.key = code], 503)
            ELSE [@ EXCEPT !.kind = "validate", !.pc = "val_get", !.key = code,
                           !.readyAtCheck = TRUE]]
    /\ UNCHANGED <<build, kb, redisReady, store, issued, stored>>
    /\ UNCHANGED scoreVars

\* what the handler does with the reply of get(`code:${code}`)
afterCodeGet(codeExists) == IF codeExists THEN "del" ELSE "404"

\* const codeExists = await redisClient.get(`code:${code}`); if (codeExists) ...
ValidateGet(r) ==
    /\ reqs[r].pc = "val_get"
    /\ reqs' = [reqs EXCEPT ![r] =
            IF ~redisReady THEN Reply(@, 500)
            ELSE LET codeExists == CodeKey(@.key) \in store
                 IN  IF afterCodeGet(codeExists) = "del"
                     THEN [@ EXCEPT !.pc = "val_del", !.got = Hit(codeExists)]
                     ELSE Reply([@ EXCEPT !.got = Hit(codeExists)], 404)]
    /\ UNCHANGED <<build, kb, redisReady, store, issued, stored>>
    /\ UNCHANGED scoreVars

\* await redisClient.del(`code:${code}`); const tempToken = uuidv4();
ValidateDel(r) ==
    /\ reqs[r].pc = "val_del"
    /\ IF redisReady
       THEN /\ store' = store \ {CodeKey(reqs[r].key)}
            /\ issued' = issued + 1
            /\ reqs' = [reqs EXCEPT ![r] = [@ EXCEPT !.pc = "val_set", !.tempToken = issued + 1]]
       ELSE /\ reqs' = [reqs EXCEPT ![r] = Reply(@, 500)]
            /\ UNCHANGED <<store, issued>>
    /\ UNCHANGED <<build, kb, redisReady, stored>>
    /\ UNCHANGED scoreVars

\* await redisClient.set(`token:${tempToken}`, 'valid', { EX: 3600 }); res.json(...)
ValidateSet(r) ==
    /\ reqs[r].pc = "val_set"
    /\ IF redisReady
       THEN /\ store' = store \cup {TokenKey(reqs[r].tempToken)}
            /\ reqs' = [reqs EXCEPT ![r] = Reply(@, 200)]
       ELSE /\ reqs' = [reqs EXCEPT ![r] = Reply(@, 500)]
            /\ UNCHANGED store
    /\ UNCHANGED <<build, kb, redisReady, issued, stored>>
    /\ UNCHANGED scoreVars

\* ---- POST /api/submit: authMiddleware, then the scoring handler ----
\* the synchronous head of authMiddleware
authCheck(token, ready) ==
    IF token = NoToken THEN "401"
    ELSE IF storeUnavailable(ready) THEN "503"
    ELSE "get"

\* (variant: the if (tokenIsValid) test is lost)
afterTokenGetUnchecked(tokenIsValid) == "del"

\* what authMiddleware does with the reply of get(`token:${token}`)
afterTokenGet(tokenIsValid) == IF tokenIsValid THEN "del" ELSE "403"

\* the tokens a client can present: none, a made-up one, one handed out in a 200
Presentable ==
    {NoToken, BogusToken}
    \cup {reqs[q].tempToken : q \in {x \in Req : reqs[x].kind = "validate" /\ reqs[x].out.status = 200}}

SubmitStart(r, token) ==
    /\ Arrives(r)
    /\ token \in Presentable
    /\ reqs' = [reqs EXCEPT ![r] =
            LET q == [@ EXCEPT !.kind = "submit", !.key = token,
                               !.readyAtCheck = ~storeUnavailable(redisReady)]
                branch == authCheck(token, redisReady)
            IN  IF branch = "401" THEN Reply(q, 401)
                ELSE IF branch = "503" THEN Reply(q, 503)
                ELSE [q EXCEPT !.pc = "auth_get"]]
    /\ UNCHANGED <<build, kb, redisReady, store, issued, stored>>
    /\ UNCHANGED scoreVars

\* const tokenIsValid = await redisClient.get(`token:${token}`); if (tokenIsValid) ...
AuthGet(r) ==
    /\ reqs[r].pc = "auth_get"
    /\ reqs' = [reqs EXCEPT ![r] =
            IF ~redisReady THEN Reply(@, 500)
            ELSE LET tokenIsValid == TokenKey(@.key) \in store
                 IN  IF afterTokenGet(tokenIsValid) = "del"
                     THEN [@ EXCEPT !.pc = "auth_del", !.got = Hit(tokenIsValid)]
                     ELSE Reply([@ EXCEPT !.got = Hit(tokenIsValid)], 403)]
    /\ UNCHANGED <<build, kb, redisReady, store, issued, stored>>
    /\ UNCHANGED scoreVars

\* (variant: the del of the token is lost)
delToken_Lost(s, token) == s

\* the store after redisClient.del(`token:${token}`)
delToken(s, token) == s \ {TokenKey(token)}

\* await redisClient.del(`token:${token}`); next(); -- next() runs the scoring
\* handler, which is synchronous, to its response.  b is req.body: nothing
\* reads it before the handler does, so it is drawn here.
AuthDel(r, b) ==
    /\ reqs[r].pc = "auth_del"
    /\ IF redisReady
       THEN /\ store' = delToken(store, reqs[r].key)
            /\ reqs' = [reqs EXCEPT ![r] =
                    [@ EXCEPT !.pc = "done", !.passed = TRUE, !.handled = TRUE,
                              !.body = b,
                              !.out = submitHandler(build, b.answers, kb)]]
       ELSE /\ reqs' = [reqs EXCEPT ![r] = Reply(@, 500)]
            /\ UNCHANGED store
    /\ UNCHANGED <<build, kb, redisReady, issued, stored>>
    /\ UNCHANGED scoreVars

\* ---- the environment ----
\* EX 3600: Redis drops a token key an hour after it was set
TokenExpires(t) ==
    /\ TokenKey(t) \in store
    /\ store' = store \ {TokenKey(t)}
    /\ UNCHANGED <<build, kb, redisReady, reqs, issued, stored>>
    /\ UNCHANGED scoreVars

\* redisClient.connect() resolves, or the connection comes back
RedisUp ==
    /\ ~redisReady
    /\ redisReady' = TRUE
    /\ UNCHANGED <<build, kb, store, reqs, issued, stored>>
    /\ UNCHANGED scoreVars

\* the connection is lost
RedisDown ==
    /\ redisReady
    /\ redisReady' = FALSE
    /\ UNCHANGED <<build, kb, store, reqs, issued, stored>>
    /\ UNCHANGED scoreVars

GateIdle ==
    /\ redisReady = FALSE
    /\ store = {}
    /\ reqs = [r \in Req |-> IdleReq]
    /\ issued = 0
    /\ stored = [c \in Codes |-> 0]

Init ==
    /\ build \in Builds
    /\ kb = ShippedKb(build)
    /\ GateIdle
    /\ body = NoBody
    /\ res = NoRes
    /\ prev = NoRes
    /\ raised = 0

Next ==
    \/ \E r \in Req, c \in Codes : GenerateStart(r, c)
    \/ \E r \in Req : GenerateSet(r)
    \/ \E r \in Req, c \in Codes : ValidateStart(r, c)
    \/ \E r \in Req : ValidateGet(r)
    \/ \E r \in Req : ValidateDel(r)
    \/ \E r \in Req : ValidateSet(r)
    \/ \E r \in Req, t \in Presentable : SubmitStart(r, t)
    \/ \E r \in Req : AuthGet(r)
    \/ \E r \in Req, b \in GateBodies : AuthDel(r, b)
    \/ \E t \in 1 .. issued : TokenExpires(t)
    \/ RedisUp
    \/ RedisDown

Spec == Init /\ [][Next]_vars

(***************************************************************************)
(* Scoring harness: specification                                          *)
(***************************************************************************)
\* The shipped table, or the table with one entry lost (then only uniform
\* submissions are scored, which reach every level the scores 0..4 can).
ScoreInit ==
    /\ build \in Builds
    /\ \/ kb = ShippedKb(build) /\ body \in PatternBodies \cup OddBodies
       \/ /\ kb \in {ShippedKb(build) \ {e} : e \in ShippedKb(build)}
          /\ body \in UniformBodies
    /\ res = NoRes
    /\ prev = NoRes
    /\ raised = 0
    /\ GateIdle

\* one submission reaches the handler
Score ==
    /\ res = NoRes
    /\ res' = submitHandler(build, body.answers, kb)
    /\ UNCHANGED <<build, kb, body, prev, raised>>
    /\ UNCHANGED gateVars

\* the second submission equals the first but for item i, scored one higher
RaiseItem(i) ==
    /\ body.answers.items[i].score # "4"
    /\ LET higher == ScoreStr(parseIntOrZero(body.answers.items[i].score) + 1)
           next == [answers |-> Answers("array",
                        [body.answers.items EXCEPT ![i] = Entry(i, higher)])]
       IN  /\ body' = next
           /\ prev' = res
           /\ raised' = i
           /\ res' = submitHandler(build, next.answers, kb)
    /\ UNCHANGED <<build, kb>>
    /\ UNCHANGED gateVars

\* after a scored valid submission, the same client submits again
Resubmit ==
    /\ res.status = 200
    /\ prev = NoRes
    /\ kb = ShippedKb(build)
    /\ ValidSubmission(body)
    /\ \E i \in 1 .. NumItems : RaiseItem(i)

ScoreNext ==
    \/ Score
    \/ Resubmit

ScoreSpec == ScoreInit /\ [][ScoreNext]_vars

(***************************************************************************)
(* The handler applied to submissions of every total: the item average and *)
(* the classification made from it.                                        *)
(***************************************************************************)
AverageInit ==
    /\ build \in Builds
    /\ kb = ShippedKb(build)
    /\ body \in StairBodies
    /\ res = NoRes
    /\ prev = NoRes
    /\ raised = 0
    /\ GateIdle

AverageNext == Score

AverageSpec == AverageInit /\ [][AverageNext]_vars

(***************************************************************************)
(* Properties of the access gate (specification Spec)                      *)
(***************************************************************************)
Submits == {r \in Req : reqs[r].kind = "submit"}
Validates == {r \in Req : reqs[r].kind = "validate"}

\* the submit requests that passed authMiddleware (reached next()) with token t
PassedWith(t) == {r \in Submits : reqs[r].passed /\ reqs[r].key = t}

\* the validate-code requests that succeeded (200, a temp token) with code c
RedeemedWith(c) == {r \in Validates : reqs[r].out.status = 200 /\ reqs[r].key = c}

\* C1: for every issued temp token, at most one POST /api/submit request ever
\* passes authMiddleware with it, whatever the interleaving of the requests
\* that present it.
C1_AtMostOnePassPerToken ==
    \A t \in 1 .. issued : Cardinality(PassedWith(t)) <= 1

\* C2: for every redemption code stored by /api/generate-code, at most one
\* POST /api/validate-code request ever succeeds with it (one temp token per
\* stored code), whatever the interleaving of the requests that carry it.
C2_AtMostOneRedemptionPerCode ==
    \A c \in Codes : Cardinality(RedeemedWith(c)) <= stored[c]

\* C3: the scoring handler runs for a request only after authMiddleware, for
\* that request, found the presented token in the store and called next(); a
\* request without a token is answered 401, one arriving while the store is
\* unavailable 503, one whose token the store does not hold (unknown or
\* already used) 403, and none of these reaches the scoring handler.
C3_ScoringOnlyAfterGatePass ==
    \A r \in Submits :
        LET q == reqs[r]
        IN  /\ q.handled => q.got = "hit" /\ q.passed
            /\ Responded(q) /\ q.key = NoToken
                => q.out.status = 401 /\ ~q.handled
            /\ Responded(q) /\ q.key # NoToken /\ ~q.readyAtCheck
                => q.out.status = 503 /\ ~q.handled
            /\ Responded(q) /\ q.got = "miss"
                => q.out.status = 403 /\ ~q.handled

\* C3 witness: one request was scored after its gate pass, and a later request
\* presenting the same, now used, token was turned away with 403.
C3_Witness ==
    \E r, q \in Submits :
        /\ reqs[r].handled /\ reqs[r].out.status = 200
        /\ reqs[q].key = reqs[r].key /\ reqs[q].out.status = 403

(***************************************************************************)
(* Properties of the scoring engine (specification ScoreSpec)              *)
(***************************************************************************)
Scored == res.status = 200

\* the sum of the elements of a sequence of numbers
RECURSIVE SeqSum(_, _)
SeqSum(q, n) == IF n = 0 THEN 0 ELSE q[n] + SeqSum(q, n - 1)

FactorTotalsSum(report) ==
    SeqSum([f \in DOMAIN report.factorDetails |-> report.factorDetails[f].totalScore],
           Len(report.factorDetails))

\* the request body is an array of exactly 90 entries
NinetyEntries(b) == b.answers.kind = "array" /\ Len(b.answers.items) = 90

\* every raw score of the body is one of 0..4
ScoresInRange(b) ==
    \A i \in DOMAIN b.answers.items :
        b.answers.items[i].score \in {"0", "1", "2", "3", "4"}

\* the value of a raw score "0".."4"
ScoreVal(raw) == CHOOSE n \in 0 .. 4 : ScoreStr(n) = raw

\* the score the body gives id k: that of its last entry with this id, 0 if none
SubmittedScore(b, k) ==
    LET at == {i \in DOMAIN b.answers.items : b.answers.items[i].id = k}
    IN  IF at = {} THEN 0
        ELSE ScoreVal(b.answers.items[CHOOSE i \in at : \A j \in at : j <= i].score)

\* the ids a body can carry that no factor lists
UnmappedIds == KeyIds \ FactorIds

RECURSIVE UnmappedSum(_, _)
UnmappedSum(b, S) ==
    IF S = {} THEN 0
    ELSE LET k == CHOOSE x \in S : TRUE
         IN  SubmittedScore(b, k) + UnmappedSum(b, S \ {k})

\* the factors whose totalScore differs between the two reports
ChangedFactors ==
    {f \in DOMAIN res.json.factorDetails :
        res.json.factorDetails[f].totalScore # prev.json.factorDetails[f].totalScore}

\* C4 (as claimed): the Factor Map partitions the item ids 1..90: the nine id
\* lists are pairwise disjoint, without duplicate, and their union is {1..90};
\* so scoring one item one higher moves exactly one factor total, by one.
C4_FactorMapPartitions ==
    /\ \A f, g \in DOMAIN SCL90_FACTORS : f # g => IdsOf(f) \cap IdsOf(g) = {}
    /\ \A f \in DOMAIN SCL90_FACTORS : Cardinality(IdsOf(f)) = Len(SCL90_FACTORS[f].ids)
    /\ FactorIds = 1 .. 90
    /\ Scored /\ prev # NoRes
        => /\ Cardinality(ChangedFactors) = 1
           /\ FactorTotalsSum(res.json) = FactorTotalsSum(prev.json) + 1

\* C4 (amended): the nine id lists are pairwise disjoint, without duplicate,
\* and cover 83 of the ids 1..90: ids 19, 44, 59, 60, 64, 66 and 89 belong to
\* no factor; so scoring one item one higher moves exactly one factor total,
\* by one, unless the item is one of these seven, and then moves none.
C4_FactorMapDisjointCovers83 ==
    /\ Len(SCL90_FACTORS) = 9
    /\ \A f, g \in DOMAIN SCL90_FACTORS : f # g => IdsOf(f) \cap IdsOf(g) = {}
    /\ \A f \in DOMAIN SCL90_FACTORS : Cardinality(IdsOf(f)) = Len(SCL90_FACTORS[f].ids)
    /\ FactorIds = (1 .. 90) \ {19, 44, 59, 60, 64, 66, 89}
    /\ Scored /\ prev # NoRes
        => IF raised \in {19, 44, 59, 60, 64, 66, 89}
           THEN ChangedFactors = {}
           ELSE /\ Cardinality(ChangedFactors) = 1
                /\ FactorTotalsSum(res.json) = FactorTotalsSum(prev.json) + 1

\* C4 witness: item 19 was scored one higher and no factor total moved, while
\* the total did.
C4_Witness ==
    /\ Scored /\ prev # NoRes /\ raised = 19
    /\ ChangedFactors = {}
    /\ res.json.stats.totalScore = prev.json.stats.totalScore + 1

\* C5 (as claimed): for a 90-entry submission with scores in 0..4, totalScore
\* lies in [0, 360] and equals the sum of the nine factor totalScore values.
C5_TotalIsSumOfFactorTotals ==
    Scored /\ NinetyEntries(body) /\ ScoresInRange(body)
        => /\ res.json.stats.totalScore \in 0 .. 360
           /\ res.json.stats.totalScore = FactorTotalsSum(res.json)

\* C5 (amended): for a 90-entry submission with scores in 0..4, totalScore
\* lies in [0, 360] and equals the sum of the nine factor totalScore values
\* plus the scores submitted for the ids that belong to no factor; it is the
\* factor sum exactly when those scores are all 0.
C5_TotalIsFactorTotalsPlusUnmapped ==
    Scored /\ NinetyEntries(body) /\ ScoresInRange(body)
        => /\ res.json.stats.totalScore \in 0 .. 360
           /\ res.json.stats.totalScore
                = FactorTotalsSum(res.json) + UnmappedSum(body, UnmappedIds)

\* C5 witness: two scored submissions with scores in 0..4, the second of which
\* has a positive score on an item of no factor and a repeated id.
C5_Witness ==
    /\ Scored /\ NinetyEntries(body) /\ ScoresInRange(body)
    /\ body.answers.items[90].id = 1
    /\ UnmappedSum(body, UnmappedIds) > 0
    /\ res.json.stats.totalScore > FactorTotalsSum(res.json)

\* the rank of a severity level, read from a factor status or an overall
\* assessment by its colour token (normal < mild < moderate < severe < extreme)
Rank(status) ==
    CASE status.color = "#28a745" -> 0
      [] status.color = "#ffc107" -> 1
      [] status.color = "#fd7e14" -> 2
      [] status.color = "#dc3545" -> 3
      [] status.color = "#a21222" -> 4

\* C6: classification is monotonic: of two valid submissions that differ only
\* in one item, scored higher in the second, the second report's severity
\* level of every factor (so of that item's factor) and its overall severity
\* level are at least those of the first.
C6_ClassificationMonotonic ==
    Scored /\ prev # NoRes
        => /\ \A f \in DOMAIN res.json.factorDetails :
                Rank(res.json.factorDetails[f].status)
                    >= Rank(prev.json.factorDetails[f].status)
           /\ Rank(res.json.overallAssessment) >= Rank(prev.json.overallAssessment)

\* the decision table of the specification, over a report's own figures
Rule1(t, p, fd) == t < 160 /\ p <= 43 /\ \A f \in DOMAIN fd : Lt(fd[f].averageScore, 2, 1)
Rule2(t, p, fd) == (t >= 300 \/ \E f \in DOMAIN fd : Ge(fd[f].averageScore, 4, 1)) /\ p > 80
Rule3(t, p, fd) ==
    /\ t \in 200 .. 299 \/ \E f \in DOMAIN fd : Ge(fd[f].averageScore, 3, 1) /\ Lt(fd[f].averageScore, 4, 1)
    /\ p \in 60 .. 80
Rule4(t, p, fd) == t >= 160 \/ p > 43
\* the rule of the code that the table leaves out
RuleMildFactor(t, p, fd) ==
    /\ \E f \in DOMAIN fd : Ge(fd[f].averageScore, 2, 1) /\ Lt(fd[f].averageScore, 3, 1)
    /\ p < 60

TableLevel(r1, r2, r3, r4) ==
    IF r1 THEN 0 ELSE IF r2 THEN 3 ELSE IF r3 THEN 2 ELSE IF r4 THEN 1 ELSE 0

\* C7 (as claimed): the multi-rule classifier is the ordered first-match-wins
\* table: normal iff rule 1; otherwise severe iff rule 2; otherwise moderate
\* iff rule 3; otherwise mild iff (total >= 160 or positive items > 43);
\* otherwise normal.
C7_OverallIsSpecTable ==
    Scored /\ build = "part_000"
        => LET t == res.json.stats.totalScore
               p == res.json.stats.positiveFactorCount
               fd == res.json.factorDetails
           IN  Rank(res.json.overallAssessment)
                 = TableLevel(Rule1(t, p, fd), Rule2(t, p, fd), Rule3(t, p, fd), Rule4(t, p, fd))

\* C7 (amended): ... otherwise mild iff (total >= 160 or positive items > 43
\* or (positive items < 60 and some factor average lies in [2, 3)));
\* otherwise normal.
C7_OverallIsTableWithMildFactorRule ==
    Scored /\ build = "part_000"
        => LET t == res.json.stats.totalScore
               p == res.json.stats.positiveFactorCount
               fd == res.json.factorDetails
           IN  Rank(res.json.overallAssessment)
                 = TableLevel(Rule1(t, p, fd), Rule2(t, p, fd), Rule3(t, p, fd),
                              Rule4(t, p, fd) \/ RuleMildFactor(t, p, fd))

\* C7 witness: a report of the multi-rule classifier that is mild by the
\* mild-factor rule alone (rules 1 to 4 of the table all fail).
C7_Witness ==
    /\ Scored /\ build = "part_000" /\ ValidSubmission(body)
    /\ LET t == res.json.stats.totalScore
           p == res.json.stats.positiveFactorCount
           fd == res.json.factorDetails
       IN  /\ ~Rule1(t, p, fd) /\ ~Rule2(t, p, fd) /\ ~Rule3(t, p, fd) /\ ~Rule4(t, p, fd)
           /\ RuleMildFactor(t, p, fd)
           /\ Rank(res.json.overallAssessment) = 1

\* C8: a submission that is not an array of exactly 90 entries is answered
\* 400 with an error message and none of the report fields.
C8_MalformedRejected ==
    res # NoRes /\ ~NinetyEntries(body)
        => /\ res.status = 400
           /\ DOMAIN res.json = {"error"}

\* C8 witness: an array of 89 entries was answered 400.
C8_Witness ==
    /\ body.answers.kind = "array" /\ Len(body.answers.items) = 89
    /\ res.status = 400

\* the factor results a valid submission must get under the running revision
ExpectedDetails ==
    IF build = "index.js" THEN factorDetailsOf(answerMapOf(body.answers.items))
    ELSE factorDetailsOfV2(answerMapOf(body.answers.items))

MissingEntries ==
    {f \in DOMAIN SCL90_FACTORS :
        <<ExpectedDetails[f].name, ExpectedDetails[f].status.level>> \notin kb}

AllFour == [answers |-> Answers("array", Uniform(4))]

\* C10 (as claimed): ids 1..90 each scored 4 give totalScore 360, every factor
\* severe (extreme in the 5-level scheme) and a positive-item count of 90.
C10_AllFourReport ==
    res # NoRes /\ body = AllFour /\ kb = ShippedKb(build)
        => /\ res.status = 200
           /\ res.json.stats.totalScore = 360
           /\ \A f \in DOMAIN res.json.factorDetails :
                res.json.factorDetails[f].status.level
                    = IF build = "index.js" THEN "extreme" ELSE "severe"
           /\ res.json.stats.positiveFactorCount = 90

\* C10 (amended): ids 1..90 each scored 4 give totalScore 360 and every factor
\* severe under both schemes (extreme starts at an average of 4.5); the
\* positive-item count, 90, is reported by part_000 only: the count index.js
\* reports is that of the factors that are not normal, 9.
C10_AllFourSevere ==
    res # NoRes /\ body = AllFour /\ kb = ShippedKb(build)
        => /\ res.status = 200
           /\ res.json.stats.totalScore = 360
           /\ \A f \in DOMAIN res.json.factorDetails :
                res.json.factorDetails[f].status.level = "severe"
           /\ res.json.stats.positiveFactorCount = IF build = "index.js" THEN 9 ELSE 90

\* C10 witness: the all-4 submission was scored by the 5-level revision.
C10_Witness ==
    res # NoRes /\ body = AllFour /\ kb = ShippedKb(build) /\ build = "index.js"

\* the level of the exact quotient total/90 against 1.5, 2.5, 3.5 and 4.5
\* (total/90 < b/2 iff 2 * total < 90 * b)
ExactLevel(total) ==
    IF 2 * total < 90 * 3 THEN "zheng4chang2"
    ELSE IF 2 * total < 90 * 5 THEN "qing1du4"
    ELSE IF 2 * total < 90 * 7 THEN "zhong1du4"
    ELSE IF 2 * total < 90 * 9 THEN "pian1zhong4"
    ELSE "yan2zhong4"

\* C11: for every integer totalScore, the level getOverallStatus (mean-score
\* scheme, index.js) returns for the value it is given, total/90 rounded to
\* two decimals, equals the level of the exact quotient total/90 against the
\* breakpoints 1.5, 2.5, 3.5 and 4.5; the value reported as itemAverageScore
\* is that rounded quotient, within 0.005 of total/90.
C11_OverallOnExactAverage ==
    Scored /\ build = "index.js"
        => LET total == res.json.stats.totalScore
               shown == res.json.stats.itemAverageScore
           IN  /\ res.json.overallAssessment.text = ExactLevel(total)
               /\ shown.den = 100
               /\ 2 * 90 * shown.num - 2 * 100 * total \in (0 - 90) .. 90

\* C11 witness: a total just under a breakpoint was scored, and the average
\* handed to getOverallStatus is not the exact quotient: 134/90 = 1.4888...
\* is handed over as 1.49, 404/90 as 4.49.
C11_Witness ==
    /\ Scored /\ build = "index.js"
    /\ res.json.stats.totalScore \in {134, 404}
    /\ res.json.stats.itemAverageScore.num * 90 # res.json.stats.totalScore * 100

\* the tokens with which some submit request has passed authMiddleware
UsedTokens == {reqs[r].key : r \in {x \in Submits : reqs[x].passed}}

\* a passed request's token is not in the store, and the scoring handler
\* answered the request 200, 400 or 500
TokenGoneAfterPass ==
    \A r \in Submits :
        reqs[r].passed => /\ TokenKey(reqs[r].key) \notin store
                          /\ reqs[r].out.status \in {200, 400, 500}

\* a step of a request that presents a used token, taken after the pass: its
\* arrival or its token lookup
LaterRequestRejected ==
    \A q \in Req :
        /\ reqs[q].pc \in {"idle", "auth_get"}
        /\ reqs'[q] # reqs[q]
        /\ reqs'[q].kind = "submit"
        /\ reqs'[q].key \in UsedTokens
        => /\ reqs'[q].pc # "auth_del"
           /\ ~reqs'[q].passed /\ ~reqs'[q].handled
           /\ reqs'[q].pc = "done" => reqs'[q].out.status \in {403, 500, 503}
           /\ reqs'[q].got # "none" => reqs'[q].got = "miss" /\ reqs'[q].out.status = 403

\* C12: once a submit request has passed authMiddleware, its token is absent
\* from the store whatever the scoring handler then answers (200, 400 or
\* 500): nothing restores it, a 400 validation rejection included.  A request
\* that presents the token after the pass never passes: its lookup of the
\* token, when the store answers it, finds nothing and the request is
\* rejected with 403 (the store being unavailable, it is answered 503 or 500
\* before any verdict on the token).
C12_TokenConsumedWhateverTheAnswer ==
    []TokenGoneAfterPass /\ [][LaterRequestRejected]_vars

\* C12 witness: a request passed the gate and was answered 400 by the scoring
\* handler, and a request presenting the same token was then rejected with 403.
C12_Witness ==
    \E r, q \in Submits :
        /\ reqs[r].passed /\ reqs[r].out.status = 400
        /\ reqs[q].key = reqs[r].key /\ reqs[q].got = "miss" /\ reqs[q].out.status = 403

====
